---------------------------- MODULE Spec2Model ----------------------------
(***************************************************************************)
(* Model of the raw-TCP HTTP/1.1 server of src/app/main.go.                *)
(*                                                                         *)
(* Byte strings are sequences of one-character strings, so that every      *)
(* string operation of the code (Split, SplitN, TrimSpace, HasPrefix,      *)
(* Contains, ToLower, filepath.Clean, ...) is computed character by        *)
(* character, as the Go library computes it.  The NUL byte is written      *)
(* "NUL".                                                                  *)
(***************************************************************************)
EXTENDS Integers, Sequences, FiniteSets, TLC

VARIABLES dir, fs, conn, lines, parsed

vars == <<dir, fs, conn, lines, parsed>>

-----------------------------------------------------------------------------
(* Characters *)

SP  == " "
CR  == "\r"
LF  == "\n"
TAB == "\t"
NUL == "NUL"

CRLF == <<CR, LF>>

UpperLetters == <<"A","B","C","D","E","F","G","H","I","J","K","L","M",
                  "N","O","P","Q","R","S","T","U","V","W","X","Y","Z">>
LowerLetters == <<"a","b","c","d","e","f","g","h","i","j","k","l","m",
                  "n","o","p","q","r","s","t","u","v","w","x","y","z">>
Digits       == <<"0","1","2","3","4","5","6","7","8","9">>

Range(s) == {s[i] : i \in DOMAIN s}

IsUpper(c) == c \in Range(UpperLetters)
IsLower(c) == c \in Range(LowerLetters)

ToLowerChar(c) ==
    IF IsUpper(c) THEN LowerLetters[CHOOSE i \in DOMAIN UpperLetters : UpperLetters[i] = c]
    ELSE c

ToUpperChar(c) ==
    IF IsLower(c) THEN UpperLetters[CHOOSE i \in DOMAIN LowerLetters : LowerLetters[i] = c]
    ELSE c

(* unicode.IsSpace restricted to the bytes of the model *)
IsSpace(c) == c \in {SP, TAB, CR, LF}

-----------------------------------------------------------------------------
(* package strings *)

Drop(s, n) == SubSeq(s, n + 1, Len(s))
Take(s, n) == SubSeq(s, 1, n)

HasPrefix(s, p) == Len(s) >= Len(p) /\ Take(s, Len(p)) = p

HasSuffix(s, p) == Len(s) >= Len(p) /\ Drop(s, Len(s) - Len(p)) = p

(* strings.Index, 1-based; 0 when sep does not occur (sep non-empty) *)
Index(s, sep) ==
    LET hits == {i \in 1..(Len(s) - Len(sep) + 1) : SubSeq(s, i, i + Len(sep) - 1) = sep}
    IN  IF hits = {} THEN 0 ELSE CHOOSE i \in hits : \A j \in hits : i <= j

Contains(s, sub) == sub = <<>> \/ Index(s, sub) # 0

RECURSIVE Split(_, _)
Split(s, sep) ==
    LET i == Index(s, sep)
    IN  IF i = 0 THEN <<s>>
        ELSE <<Take(s, i - 1)>> \o Split(Drop(s, i - 1 + Len(sep)), sep)

(* strings.SplitN(s, sep, 2) *)
SplitN2(s, sep) ==
    LET i == Index(s, sep)
    IN  IF i = 0 THEN <<s>>
        ELSE <<Take(s, i - 1), Drop(s, i - 1 + Len(sep))>>

RECURSIVE Join(_, _)
Join(elems, sep) ==
    IF elems = <<>> THEN <<>>
    ELSE IF Len(elems) = 1 THEN elems[1]
    ELSE elems[1] \o sep \o Join(Tail(elems), sep)

ToLower(s) == [i \in DOMAIN s |-> ToLowerChar(s[i])]

RECURSIVE TrimLeftSpace(_)
TrimLeftSpace(s) ==
    IF s # <<>> /\ IsSpace(s[1]) THEN TrimLeftSpace(Tail(s)) ELSE s

RECURSIVE TrimRight(_, _)
TrimRight(s, cutset) ==
    IF s # <<>> /\ s[Len(s)] \in cutset THEN TrimRight(Take(s, Len(s) - 1), cutset) ELSE s

TrimSpace(s) == TrimRight(TrimLeftSpace(s), {SP, TAB, CR, LF})

TrimSuffix(s, suf) == IF HasSuffix(s, suf) THEN Take(s, Len(s) - Len(suf)) ELSE s

(* strings.Replace(s, old, new, 1) *)
ReplaceFirst(s, old, new) ==
    LET i == Index(s, old)
    IN  IF i = 0 THEN s ELSE Take(s, i - 1) \o new \o Drop(s, i - 1 + Len(old))

(* fmt's %d for a non-negative int *)
RECURSIVE Itoa(_)
Itoa(n) == IF n < 10 THEN <<Digits[n + 1]>> ELSE Itoa(n \div 10) \o <<Digits[(n % 10) + 1]>>


-----------------------------------------------------------------------------
(* net/textproto.  The token bytes are the letters, the digits and the     *)
(* punctuation of RFC 7230; of the punctuation only the bytes below occur   *)
(* in the model's alphabet.                                                 *)

ValidHeaderFieldByte(c) ==
    \/ IsUpper(c)
    \/ IsLower(c)
    \/ c \in Range(Digits)
    \/ c \in {"-", ".", "_", "+", "!", "#", "~"}

(* textproto.CanonicalMIMEHeaderKey: a key holding a byte that is no token   *)
(* byte is returned unchanged; otherwise the first letter and every letter   *)
(* after a hyphen are upper-cased and all other letters lower-cased.         *)
CanonicalMIMEHeaderKey(s) ==
    IF \E i \in DOMAIN s : ~ValidHeaderFieldByte(s[i]) THEN s
    ELSE [i \in DOMAIN s |->
            IF i = 1 \/ s[i - 1] = "-" THEN ToUpperChar(s[i]) ELSE ToLowerChar(s[i])]

-----------------------------------------------------------------------------
(* path/filepath (Unix) *)

SLASH  == <<"/">>
DOT    == <<".">>
DOTDOT == <<".", ".">>

(* The element stack of filepath.Clean after the elements es: empty and "."  *)
(* elements are skipped, ".." removes the last element when there is one     *)
(* that is not a pinned leading "..", is dropped at the root, and is kept    *)
(* (and pinned) in a relative path.  dd counts the pinned elements.          *)
RECURSIVE CleanElems(_, _, _, _)
CleanElems(es, rooted, out, dd) ==
    IF es = <<>> THEN out
    ELSE LET e == Head(es) IN
         IF e = <<>> \/ e = DOT THEN CleanElems(Tail(es), rooted, out, dd)
         ELSE IF e = DOTDOT THEN
              IF Len(out) > dd THEN CleanElems(Tail(es), rooted, Take(out, Len(out) - 1), dd)
              ELSE IF ~rooted THEN CleanElems(Tail(es), rooted, Append(out, DOTDOT), Len(out) + 1)
              ELSE CleanElems(Tail(es), rooted, out, dd)
         ELSE CleanElems(Tail(es), rooted, Append(out, e), dd)

Clean(path) ==
    IF path = <<>> THEN DOT
    ELSE LET rooted == path[1] = "/"
             out    == CleanElems(Split(path, SLASH), rooted, <<>>, 0)
         IN  IF rooted THEN SLASH \o Join(out, SLASH)
             ELSE IF out = <<>> THEN DOT
             ELSE Join(out, SLASH)

IsAbs(path) == HasPrefix(path, SLASH)

(* filepath.Join of two elements: empty elements are ignored, the rest is    *)
(* joined with "/" and cleaned.                                              *)
JoinPath(a, b) ==
    IF a # <<>> THEN Clean(a \o SLASH \o b)
    ELSE IF b # <<>> THEN Clean(b)
    ELSE <<>>

(* The working directory of the process (os.Getwd), used by filepath.Abs    *)
(* for a relative served directory.                                         *)
Cwd == <<"/", "s", "r", "v">>

Abs(path) == IF IsAbs(path) THEN Clean(path) ELSE JoinPath(Cwd, path)

(* filepath.Dir of a cleaned absolute path *)
ParentDir(path) ==
    LET es == Split(path, SLASH)
    IN  Clean(Join(Take(es, Len(es) - 1), SLASH) \o SLASH)


-----------------------------------------------------------------------------
(* String literals of main.go *)

Res200 == <<"H", "T", "T", "P", "/", "1", ".", "1", " ", "2", "0", "0", " ", "O", "K", "\r", "\n">>

Res201 == <<"H", "T", "T", "P", "/", "1", ".", "1", " ", "2", "0", "1", " ", "C", "r", "e", "a", "t", "e", "d", "\r", "\n">>

Res400 == <<"H", "T", "T", "P", "/", "1", ".", "1", " ", "4", "0", "0", " ", "B", "a", "d", " ", "R", "e", "q", "u", "e", "s", "t", "\r", "\n">>

Res403 == <<"H", "T", "T", "P", "/", "1", ".", "1", " ", "4", "0", "3", " ", "F", "o", "r", "b", "i", "d", "d", "e", "n", "\r", "\n">>

Res404 == <<"H", "T", "T", "P", "/", "1", ".", "1", " ", "4", "0", "4", " ", "N", "o", "t", " ", "F", "o", "u", "n", "d", "\r", "\n">>

Res405 == <<"H", "T", "T", "P", "/", "1", ".", "1", " ", "4", "0", "5", " ", "M", "e", "t", "h", "o", "d", " ", "N", "o", "t", " ", "A", "l", "l", "o", "w", "e", "d", "\r", "\n">>

Res500 == <<"H", "T", "T", "P", "/", "1", ".", "1", " ", "5", "0", "0", " ", "I", "n", "t", "e", "r", "n", "a", "l", " ", "S", "e", "r", "v", "e", "r", " ", "E", "r", "r", "o", "r", "\r", "\n">>

HdrConnectionClose == <<"C", "o", "n", "n", "e", "c", "t", "i", "o", "n", ":", " ", "c", "l", "o", "s", "e", "\r", "\n">>

HdrTextPlain == <<"C", "o", "n", "t", "e", "n", "t", "-", "T", "y", "p", "e", ":", " ", "t", "e", "x", "t", "/", "p", "l", "a", "i", "n", "\r", "\n">>

HdrOctetStream == <<"C", "o", "n", "t", "e", "n", "t", "-", "T", "y", "p", "e", ":", " ", "a", "p", "p", "l", "i", "c", "a", "t", "i", "o", "n", "/", "o", "c", "t", "e", "t", "-", "s", "t", "r", "e", "a", "m", "\r", "\n">>

HdrGzip == <<"C", "o", "n", "t", "e", "n", "t", "-", "E", "n", "c", "o", "d", "i", "n", "g", ":", " ", "g", "z", "i", "p", "\r", "\n">>

HdrContentLength == <<"C", "o", "n", "t", "e", "n", "t", "-", "L", "e", "n", "g", "t", "h", ":", " ">>

KeyConnection == <<"C", "o", "n", "n", "e", "c", "t", "i", "o", "n">>

KeyAcceptEncoding == <<"A", "c", "c", "e", "p", "t", "-", "E", "n", "c", "o", "d", "i", "n", "g">>

KeyUserAgent == <<"U", "s", "e", "r", "-", "A", "g", "e", "n", "t">>

StrClose == <<"c", "l", "o", "s", "e">>

StrGzip == <<"g", "z", "i", "p">>

StrGET == <<"G", "E", "T">>

StrPOST == <<"P", "O", "S", "T">>

PrefixEcho == <<"/", "e", "c", "h", "o", "/">>

PrefixFiles == <<"/", "f", "i", "l", "e", "s", "/">>

PathUserAgent == <<"/", "u", "s", "e", "r", "-", "a", "g", "e", "n", "t">>

CommaSpace == <<",", " ">>

-----------------------------------------------------------------------------
(* Go maps with string keys: a function whose domain is the set of keys *)

EmptyMap == <<>>

MapPut(m, k, v) == [x \in (DOMAIN m) \cup {k} |-> IF x = k THEN v ELSE m[x]]

(* m[k] of Go: the zero value "" when the key is absent *)
MapGet(m, k) == IF k \in DOMAIN m THEN m[k] ELSE <<>>

-----------------------------------------------------------------------------
(* parseRequestLine *)

(* a variant that rejects only a line with too few tokens *)
parseRequestLineAtLeast3(firstLine) ==
    LET parts == Split(firstLine, <<SP>>)
    IN  IF Len(parts) < 3
        THEN [err |-> TRUE, method |-> <<>>, path |-> <<>>, version |-> <<>>]
        ELSE [err |-> FALSE, method |-> parts[1], path |-> parts[2], version |-> parts[3]]

parseRequestLine(firstLine) ==
    LET parts == Split(firstLine, <<SP>>)
    IN  IF Len(parts) # 3
        THEN [err |-> TRUE, method |-> <<>>, path |-> <<>>, version |-> <<>>]
        ELSE [err |-> FALSE, method |-> parts[1], path |-> parts[2], version |-> parts[3]]

(* a variant of the loop without the break at the empty line *)
RECURSIVE parseHeadersLoopNoBreak(_, _, _)
parseHeadersLoopNoBreak(reqLines, k, headers) ==
    IF k > Len(reqLines) THEN [headers |-> headers, bodyStartIndex |-> Len(reqLines)]
    ELSE LET parts == SplitN2(reqLines[k], <<":">>)
         IN  IF Len(parts) = 2
             THEN parseHeadersLoopNoBreak(reqLines, k + 1,
                      MapPut(headers, CanonicalMIMEHeaderKey(TrimSpace(parts[1])),
                             TrimSpace(parts[2])))
             ELSE parseHeadersLoopNoBreak(reqLines, k + 1, headers)

(* a variant of the loop that keeps the first value of a repeated key *)
RECURSIVE parseHeadersLoopFirstWins(_, _, _)
parseHeadersLoopFirstWins(reqLines, k, headers) ==
    IF k > Len(reqLines) THEN [headers |-> headers, bodyStartIndex |-> Len(reqLines)]
    ELSE IF reqLines[k] = <<>> THEN [headers |-> headers, bodyStartIndex |-> k]
    ELSE LET parts == SplitN2(reqLines[k], <<":">>)
             canonicalName == CanonicalMIMEHeaderKey(TrimSpace(parts[1]))
         IN  IF Len(parts) = 2 /\ canonicalName \notin DOMAIN headers
             THEN parseHeadersLoopFirstWins(reqLines, k + 1,
                      MapPut(headers, canonicalName, TrimSpace(parts[2])))
             ELSE parseHeadersLoopFirstWins(reqLines, k + 1, headers)

(* parseHeaders.  The loop of the code over reqLines with index i (0-based) *)
(* is the recursion below over position k = i + 1; it stops at the first    *)
(* empty line with bodyStartIndex = i + 1 = k, and at the end of the lines  *)
(* with bodyStartIndex = len(reqLines).                                     *)
RECURSIVE parseHeadersLoop(_, _, _)
parseHeadersLoop(reqLines, k, headers) ==
    IF k > Len(reqLines) THEN [headers |-> headers, bodyStartIndex |-> Len(reqLines)]
    ELSE IF reqLines[k] = <<>> THEN [headers |-> headers, bodyStartIndex |-> k]
    ELSE LET parts == SplitN2(reqLines[k], <<":">>)
         IN  IF Len(parts) = 2
             THEN LET headerName    == TrimSpace(parts[1])
                      headerValue   == TrimSpace(parts[2])
                      canonicalName == CanonicalMIMEHeaderKey(headerName)
                  IN  parseHeadersLoop(reqLines, k + 1, MapPut(headers, canonicalName, headerValue))
             ELSE parseHeadersLoop(reqLines, k + 1, headers)

parseHeaders(reqLines) == parseHeadersLoop(reqLines, 1, EmptyMap)

-----------------------------------------------------------------------------
(* Route handlers.  A handler's result is the bytes it writes to the        *)
(* connection (all its conn.Write calls, in order) and whether it calls     *)
(* conn.Close() itself.                                                     *)

(* a variant that compares the Connection value case-sensitively *)
closeConnectionCaseSensitive(headers) ==
    /\ KeyConnection \in DOMAIN headers
    /\ Contains(headers[KeyConnection], StrClose)

closeConnection(headers) ==
    /\ KeyConnection \in DOMAIN headers
    /\ Contains(ToLower(headers[KeyConnection]), StrClose)

handleRootRequest(headers) ==
    LET res == Res200 \o CRLF
    IN  [out   |-> IF closeConnection(headers)
                   THEN ReplaceFirst(res, CRLF \o CRLF, CRLF \o HdrConnectionClose \o CRLF)
                   ELSE res,
         close |-> closeConnection(headers)]

(* compressData.  The gzip member is kept abstract: one header byte, the    *)
(* payload and one trailer byte stand for the 10-byte header, the deflate   *)
(* stream and the CRC/size trailer.  Writing to a bytes.Buffer returns no   *)
(* error, so err is always nil.                                             *)
compressData(data) == [err |-> FALSE, buf |-> <<"GZH">> \o data \o <<"GZT">>]

handleEchoRequest(headers, path) ==
    LET pathStr   == Split(path, PrefixEcho)[2]
        closeConn == closeConnection(headers)
        connHdr   == IF closeConn THEN HdrConnectionClose ELSE <<>>
        encodings == IF KeyAcceptEncoding \in DOMAIN headers
                     THEN Split(headers[KeyAcceptEncoding], CommaSpace)
                     ELSE <<>>
        compressed == compressData(pathStr)
    IN  IF \E i \in DOMAIN encodings : encodings[i] = StrGzip
        THEN IF compressed.err
             THEN [out |-> Res500 \o connHdr \o CRLF, close |-> closeConn]
             ELSE [out |-> Res200 \o HdrTextPlain \o HdrGzip
                           \o HdrContentLength \o Itoa(Len(compressed.buf)) \o CRLF
                           \o connHdr \o CRLF \o compressed.buf,
                   close |-> closeConn]
        ELSE [out |-> Res200 \o HdrTextPlain
                      \o HdrContentLength \o Itoa(Len(pathStr)) \o CRLF
                      \o connHdr \o CRLF \o pathStr,
              close |-> closeConn]

handleUserAgentRequest(headers) ==
    LET userAgent == MapGet(headers, KeyUserAgent)
        closeConn == closeConnection(headers)
    IN  [out |-> Res200 \o HdrTextPlain
                 \o HdrContentLength \o Itoa(Len(userAgent)) \o CRLF
                 \o (IF closeConn THEN HdrConnectionClose ELSE <<>>)
                 \o CRLF \o userAgent,
         close |-> closeConn]

-----------------------------------------------------------------------------
(* The filesystem: fs maps the path of every regular file to its content;   *)
(* the directories are fixed (the server creates none).                     *)

DirRoot  == SLASH
DirFiles == <<"/", "f", "i", "l", "e", "s">>
DirSrv   == Cwd

Dirs == {DirRoot, DirFiles, DirSrv}

(* os.ReadFile *)
ReadFile(fsys, name) ==
    IF name \in DOMAIN fsys THEN [err |-> FALSE, data |-> fsys[name]]
    ELSE [err |-> TRUE, data |-> <<>>]

(* os.WriteFile is OpenFile(name, O_WRONLY|O_CREATE|O_TRUNC), then one      *)
(* Write at offset 0, then Close: two system calls that change the file,    *)
(* between which other goroutines run.  OpenFile fails on a directory and   *)
(* in a directory that does not exist.                                      *)
OpenFails(name) == name \in Dirs \/ ParentDir(name) \notin Dirs

OpenTrunc(fsys, name) == MapPut(fsys, name, <<>>)

(* the Write of a descriptor opened at offset 0: the bytes of the file      *)
(* beyond the written ones stay                                             *)
WriteAt0(fsys, name, data) == MapPut(fsys, name, data \o Drop(MapGet(fsys, name), Len(data)))

-----------------------------------------------------------------------------
(* handleFileRequest *)

requestedFileName(path) == Split(path, PrefixFiles)[2]

cleanedFilePath(path, d) == Clean(JoinPath(Abs(d), requestedFileName(path)))

(* the security check: a literal prefix test on the two strings *)
withinBase(cleaned, absBaseDir) == HasPrefix(cleaned, absBaseDir)

(* the loop of the POST branch over reqLines (request line included) *)
RECURSIVE firstEmptyLine(_, _)
firstEmptyLine(reqLines, k) ==
    IF k > Len(reqLines) THEN -1
    ELSE IF reqLines[k] = <<>> THEN k
    ELSE firstEmptyLine(reqLines, k + 1)

(* a variant that trims the body with strings.TrimSpace *)
postDataTrimSpace(reqLines) ==
    LET bodyStartIndex == firstEmptyLine(reqLines, 1)
    IN  IF Len(reqLines) > 0 /\ bodyStartIndex # -1 /\ bodyStartIndex < Len(reqLines)
        THEN TrimSpace(Join(SubSeq(reqLines, bodyStartIndex + 1, Len(reqLines)), CRLF))
        ELSE <<>>

postData(reqLines) ==
    LET bodyStartIndex == firstEmptyLine(reqLines, 1)
    IN  IF Len(reqLines) > 0 /\ bodyStartIndex # -1 /\ bodyStartIndex < Len(reqLines)
        THEN TrimRight(Join(SubSeq(reqLines, bodyStartIndex + 1, Len(reqLines)), CRLF), {NUL})
        ELSE <<>>

(* the response built from res by the strings.Builder at the handler's end *)
finalRes(res, closeConn) ==
    TrimSuffix(res, CRLF) \o CRLF \o (IF closeConn THEN HdrConnectionClose ELSE <<>>) \o CRLF

NoFileOp == [out |-> <<>>, close |-> FALSE, ops |-> {}, pending |-> FALSE,
             wpath |-> <<>>, wdata |-> <<>>]

(* The handler up to its return, or, for a POST whose OpenFile succeeded,   *)
(* up to the point where the file is open and truncated (pending): the      *)
(* rest of that POST is writeFileFinish.  ops are the file operations       *)
(* made, fs the filesystem they leave.                                      *)
handleFileRequest(headers, path, method, d, reqLines, fsys) ==
    LET absBaseDir == Abs(d)
        cleaned    == cleanedFilePath(path, d)
        closeConn  == closeConnection(headers)
        rd         == ReadFile(fsys, cleaned)
        data       == postData(reqLines)
    IN  IF ~withinBase(cleaned, absBaseDir)
        THEN [NoFileOp EXCEPT !.out = Res403 \o CRLF] @@ [fs |-> fsys]
        ELSE IF method = StrGET
        THEN IF rd.err
             THEN [NoFileOp EXCEPT !.out = finalRes(Res404, closeConn), !.close = closeConn,
                                   !.ops = {<<"read", cleaned>>}] @@ [fs |-> fsys]
             ELSE [NoFileOp EXCEPT !.out = Res200 \o HdrOctetStream
                                           \o HdrContentLength \o Itoa(Len(rd.data)) \o CRLF
                                           \o (IF closeConn THEN HdrConnectionClose ELSE <<>>)
                                           \o CRLF \o rd.data,
                                   !.close = closeConn,
                                   !.ops = {<<"read", cleaned>>}] @@ [fs |-> fsys]
        ELSE IF method = StrPOST
        THEN IF OpenFails(cleaned)
             THEN [NoFileOp EXCEPT !.out = finalRes(Res500, closeConn), !.close = closeConn,
                                   !.ops = {<<"write", cleaned>>}] @@ [fs |-> fsys]
             ELSE [NoFileOp EXCEPT !.close = closeConn, !.ops = {<<"write", cleaned>>},
                                   !.pending = TRUE, !.wpath = cleaned, !.wdata = data]
                  @@ [fs |-> OpenTrunc(fsys, cleaned)]
        ELSE [NoFileOp EXCEPT !.out = finalRes(Res405, closeConn), !.close = closeConn]
             @@ [fs |-> fsys]

(* the end of a POST: the data is written, the file closed, 201 answered *)
writeFileFinish(fsys, wpath, wdata, closeConn) ==
    [out |-> finalRes(Res201, closeConn), fs |-> WriteAt0(fsys, wpath, wdata)]

-----------------------------------------------------------------------------
(* handleRequest, from the bytes of the first read to the handler's result. *)
(* route is the handler dispatched to.                                      *)
(* strings.Split returns at least one line, so the code's test for zero     *)
(* lines never succeeds and has no counterpart here.                        *)

handleRequest(requestString, d, fsys) ==
    LET reqLines == Split(requestString, CRLF)
        rl       == parseRequestLine(reqLines[1])
        headers  == parseHeaders(Tail(reqLines)).headers
        plain(route, r) == [NoFileOp EXCEPT !.out = r.out, !.close = r.close]
                           @@ [fs |-> fsys, route |-> route]
    IN  IF rl.err
        THEN [NoFileOp EXCEPT !.out = Res400 \o CRLF] @@ [fs |-> fsys, route |-> "none"]
        ELSE IF rl.path = SLASH
        THEN plain("root", handleRootRequest(headers))
        ELSE IF HasPrefix(rl.path, PrefixEcho)
        THEN plain("echo", handleEchoRequest(headers, rl.path))
        ELSE IF rl.path = PathUserAgent
        THEN plain("user-agent", handleUserAgentRequest(headers))
        ELSE IF HasPrefix(rl.path, PrefixFiles)
        THEN handleFileRequest(headers, rl.path, rl.method, d, reqLines, fsys)
             @@ [route |-> "files"]
        ELSE [NoFileOp EXCEPT !.out = Res404 \o CRLF] @@ [fs |-> fsys, route |-> "default"]

-----------------------------------------------------------------------------
(* The requests clients send.  A request is the bytes the first conn.Read   *)
(* returns (at most the 1024 bytes of the buffer; every request here is     *)
(* shorter): a request line, header lines and a body, or a fragment.        *)

(* paths outside the /files/ route:
     /
     /echo/abc
     /echo/a/echo/b
     /echo/
     /echo
     /user-agent
     /user-agent/
     /nope *)
OtherPaths ==
  { <<"/">>,
    <<"/", "e", "c", "h", "o", "/", "a", "b", "c">>,
    <<"/", "e", "c", "h", "o", "/", "a", "/", "e", "c", "h", "o", "/", "b">>,
    <<"/", "e", "c", "h", "o", "/">>,
    <<"/", "e", "c", "h", "o">>,
    <<"/", "u", "s", "e", "r", "-", "a", "g", "e", "n", "t">>,
    <<"/", "u", "s", "e", "r", "-", "a", "g", "e", "n", "t", "/">>,
    <<"/", "n", "o", "p", "e">> }

(* paths of the /files/ route:
     /files/a
     /files/
     /files/e/x
     /files/a/files/b
     /files/../filesx
     /files/../srvx
     /files/../../etc
     /files/../files/a *)
FilePaths ==
  { <<"/", "f", "i", "l", "e", "s", "/", "a">>,
    <<"/", "f", "i", "l", "e", "s", "/">>,
    <<"/", "f", "i", "l", "e", "s", "/", "e", "/", "x">>,
    <<"/", "f", "i", "l", "e", "s", "/", "a", "/", "f", "i", "l", "e", "s", "/", "b">>,
    <<"/", "f", "i", "l", "e", "s", "/", ".", ".", "/", "f", "i", "l", "e", "s", "x">>,
    <<"/", "f", "i", "l", "e", "s", "/", ".", ".", "/", "s", "r", "v", "x">>,
    <<"/", "f", "i", "l", "e", "s", "/", ".", ".", "/", ".", ".", "/", "e", "t", "c">>,
    <<"/", "f", "i", "l", "e", "s", "/", ".", ".", "/", "f", "i", "l", "e", "s", "/", "a">> }

StrPUT == <<"P", "U", "T">>

StrVersion == <<"H", "T", "T", "P", "/", "1", ".", "1">>

ReqLine(method, path) == method \o <<SP>> \o path \o <<SP>> \o StrVersion

(* request lines that are malformed or unusual:
     
     GET /
     GET  / HTTP/1.1
     GET / HTTP/1.1 
     get /files/a HTTP/1.1
     GET /files/a  HTTP/1.1 *)
OddLines ==
  { <<>>,
    <<"G", "E", "T", " ", "/">>,
    <<"G", "E", "T", " ", " ", "/", " ", "H", "T", "T", "P", "/", "1", ".", "1">>,
    <<"G", "E", "T", " ", "/", " ", "H", "T", "T", "P", "/", "1", ".", "1", " ">>,
    <<"g", "e", "t", " ", "/", "f", "i", "l", "e", "s", "/", "a", " ", "H", "T", "T", "P", "/", "1", ".", "1">>,
    <<"G", "E", "T", " ", "/", "f", "i", "l", "e", "s", "/", "a", " ", " ", "H", "T", "T", "P", "/", "1", ".", "1">> }

RequestLines ==
    {ReqLine(StrGET, p) : p \in OtherPaths \cup FilePaths}
    \cup {ReqLine(m, p) : m \in {StrPOST, StrPUT}, p \in FilePaths}
    \cup {ReqLine(StrPOST, SLASH)}
    \cup OddLines

(* Connection: close *)
HConnClose == <<"C", "o", "n", "n", "e", "c", "t", "i", "o", "n", ":", " ", "c", "l", "o", "s", "e">>

(*  connection :Keep, CLOSE  *)
HConnCloseOdd == <<" ", "c", "o", "n", "n", "e", "c", "t", "i", "o", "n", " ", ":", "K", "e", "e", "p", ",", " ", "C", "L", "O", "S", "E", " ">>

(* Connection: keep-alive *)
HConnKeep == <<"C", "o", "n", "n", "e", "c", "t", "i", "o", "n", ":", " ", "k", "e", "e", "p", "-", "a", "l", "i", "v", "e">>

(* Accept-Encoding: gzip *)
HAcceptGzip == <<"A", "c", "c", "e", "p", "t", "-", "E", "n", "c", "o", "d", "i", "n", "g", ":", " ", "g", "z", "i", "p">>

(* accept-encoding: deflate, gzip *)
HAcceptList == <<"a", "c", "c", "e", "p", "t", "-", "e", "n", "c", "o", "d", "i", "n", "g", ":", " ", "d", "e", "f", "l", "a", "t", "e", ",", " ", "g", "z", "i", "p">>

(* Accept-Encoding: deflate,gzip *)
HAcceptNoSpace == <<"A", "c", "c", "e", "p", "t", "-", "E", "n", "c", "o", "d", "i", "n", "g", ":", " ", "d", "e", "f", "l", "a", "t", "e", ",", "g", "z", "i", "p">>

(* User-Agent: curl/8 *)
HUserAgent == <<"U", "s", "e", "r", "-", "A", "g", "e", "n", "t", ":", " ", "c", "u", "r", "l", "/", "8">>

(* Connection close *)
HNoColon == <<"C", "o", "n", "n", "e", "c", "t", "i", "o", "n", " ", "c", "l", "o", "s", "e">>

(* header blocks about the Connection header, sent with every request line *)
ConnBlocks ==
    { <<>>, <<HConnClose>>, <<HConnCloseOdd>>, <<HConnKeep>>, <<HNoColon>>,
      <<HConnClose, HConnKeep>>, <<HConnKeep, HConnClose>> }

(* header blocks for the echo and user-agent routes *)
ContentBlocks ==
    { <<HAcceptGzip>>, <<HAcceptList, HConnClose>>, <<HAcceptNoSpace>>,
      <<HUserAgent>>, <<HUserAgent, HConnClose>> }

(* bodies: "hi", "hi" NUL NUL, and CRLF "hi" and CRLF alone (a request     *)
(* with a second blank line before "hi", or before nothing)                *)
BodyHi == <<"h", "i">>

BodyCrlfHi == <<"\r", "\n", "h", "i">>

BodyHiNul == <<"h", "i", NUL, NUL>>

BodyCrlf == CRLF

Bodies == {BodyHi, BodyCrlfHi, BodyCrlf, BodyHiNul}

(* request line CRLF, each header line CRLF, CRLF, body *)
BuildRequest(line, block, body) ==
    line \o CRLF \o Join([i \in DOMAIN block |-> block[i] \o CRLF], <<>>) \o CRLF \o body

(* reads that return a fragment of a request:
     G
     GET / HT
     GET /files/a HTTP/1.1
     \r\n *)
Fragments ==
  { <<"G">>,
    <<"G", "E", "T", " ", "/", " ", "H", "T">>,
    <<"G", "E", "T", " ", "/", "f", "i", "l", "e", "s", "/", "a", " ", "H", "T", "T", "P", "/", "1", ".", "1">>,
    <<"\r", "\n">> }

Requests ==
    {BuildRequest(l, b, <<>>) : l \in RequestLines, b \in ConnBlocks}
    \cup {BuildRequest(ReqLine(StrPOST, p), b, body) :
             p \in FilePaths, b \in {<<>>, <<HConnClose>>}, body \in Bodies}
    \cup {BuildRequest(ReqLine(StrGET, p), b, <<>>) :
             p \in {<<"/", "e", "c", "h", "o", "/", "a", "b", "c">>, <<"/", "e", "c", "h", "o", "/", "a", "/", "e", "c", "h", "o", "/", "b">>, PathUserAgent},
             b \in ContentBlocks}
    \cup Fragments

-----------------------------------------------------------------------------
(* The server.  conn[c] is one connection slot: the goroutine main starts   *)
(* for an accepted connection, with its position pc, the bytes of its one   *)
(* conn.Read (in; rerr when the Read returned an error; reads counts the    *)
(* calls of conn.Read), the bytes written                                   *)
(* to the connection (out), whether the handler called conn.Close()         *)
(* (hclose), whether the connection is closed, the handler dispatched to    *)
(* (route), the file operations made (ops) and, while a POST has its file   *)
(* open, the path and data of the pending write.  A slot whose goroutine    *)
(* has returned is reused for the next accepted connection.                 *)

Idle ==
    [pc |-> "idle", reads |-> 0, in |-> <<>>, rerr |-> FALSE, out |-> <<>>, hclose |-> FALSE,
     closed |-> FALSE, route |-> "none", ops |-> {}, wpath |-> <<>>, wdata |-> <<>>]

(* parseHeaders' locals before its loop *)
NotParsed == [headers |-> EmptyMap, bodyStartIndex |-> -1]

(* the served directory: os.Args[2], or "" when it is not given *)
ServedDirs == {DirFiles, <<>>}

FileA    == <<"/", "f", "i", "l", "e", "s", "/", "a">>
FileSrvA == <<"/", "s", "r", "v", "/", "a">>
OldData  == <<"o", "l", "d">>

InitFs == (FileA :> OldData) @@ (FileSrvA :> OldData)

InitWith(ids) ==
    /\ dir \in ServedDirs
    /\ fs = InitFs
    /\ conn = [c \in ids |-> Idle]
    /\ lines = <<>>
    /\ parsed = NotParsed

(* main's loop: l.Accept returns a connection and go handleRequest starts *)
Accept(c) ==
    /\ conn[c].pc \in {"idle", "done"}
    /\ conn' = [conn EXCEPT ![c] = [Idle EXCEPT !.pc = "accepted"]]
    /\ UNCHANGED <<dir, fs, lines, parsed>>

(* conn.Read returns n > 0 bytes *)
Recv(c, bytes) ==
    /\ conn[c].pc = "accepted"
    /\ conn' = [conn EXCEPT ![c].pc = "received", ![c].reads = @ + 1, ![c].in = bytes]
    /\ UNCHANGED <<dir, fs, lines, parsed>>

(* conn.Read returns an error (io.EOF or another): handleRequest returns,   *)
(* and its deferred conn.Close() runs                                       *)
RecvErr(c) ==
    /\ conn[c].pc = "accepted"
    /\ conn' = [conn EXCEPT ![c].pc = "done", ![c].reads = @ + 1, ![c].rerr = TRUE,
                             ![c].closed = TRUE]
    /\ UNCHANGED <<dir, fs, lines, parsed>>

(* a variant of Serve without the deferred conn.Close() *)
ServeNoDefer(c) ==
    /\ conn[c].pc = "received"
    /\ \E r \in {handleRequest(conn[c].in, dir, fs)} :
           /\ conn' = [conn EXCEPT ![c].pc     = IF r.pending THEN "writing" ELSE "done",
                                   ![c].out    = r.out,
                                   ![c].hclose = r.close /\ ~r.pending,
                                   ![c].closed = r.close /\ ~r.pending,
                                   ![c].route  = r.route,
                                   ![c].ops    = r.ops,
                                   ![c].wpath  = r.wpath,
                                   ![c].wdata  = r.wdata]
           /\ fs' = r.fs
    /\ UNCHANGED <<dir, lines, parsed>>

(* handleRequest after the Read: parse, dispatch, handler.  It ends with    *)
(* the deferred conn.Close(), except for a POST whose file is now open.     *)
Serve(c) ==
    /\ conn[c].pc = "received"
    /\ \E r \in {handleRequest(conn[c].in, dir, fs)} :
           /\ conn' = [conn EXCEPT ![c].pc     = IF r.pending THEN "writing" ELSE "done",
                                   ![c].out    = r.out,
                                   ![c].hclose = r.close /\ ~r.pending,
                                   ![c].closed = ~r.pending,
                                   ![c].route  = r.route,
                                   ![c].ops    = r.ops,
                                   ![c].wpath  = r.wpath,
                                   ![c].wdata  = r.wdata]
           /\ fs' = r.fs
    /\ UNCHANGED <<dir, lines, parsed>>

(* the rest of os.WriteFile and of the POST branch: Write, Close, the 201   *)
(* response, conn.Close() when asked for, the deferred conn.Close()         *)
WriteBody(c) ==
    /\ conn[c].pc = "writing"
    /\ \E closeConn \in {closeConnection(parseHeaders(Tail(Split(conn[c].in, CRLF))).headers)} :
       \E r \in {writeFileFinish(fs, conn[c].wpath, conn[c].wdata, closeConn)} :
           /\ conn' = [conn EXCEPT ![c].pc = "done", ![c].out = r.out,
                                   ![c].hclose = closeConn, ![c].closed = TRUE]
           /\ fs' = r.fs
    /\ UNCHANGED <<dir, lines, parsed>>

(* One connection at a time, any request of Requests.  Connections share   *)
(* nothing but the filesystem, so what a handler answers to a request and   *)
(* a filesystem is the same here as among concurrent connections; the       *)
(* interleavings of two connections are those of SpecRace below.            *)
Init == InitWith({"c1"})

Next ==
    \/ \E c \in DOMAIN conn : Accept(c)
    \/ \E c \in DOMAIN conn, bytes \in Requests : Recv(c, bytes)
    \/ \E c \in DOMAIN conn : RecvErr(c)
    \/ \E c \in DOMAIN conn : Serve(c)
    \/ \E c \in DOMAIN conn : WriteBody(c)

Spec == Init /\ [][Next]_vars

-----------------------------------------------------------------------------
(* Two connections handled concurrently, each a POST to or a GET of         *)
(* /files/a: the goroutines interleave at the steps above.                  *)

BodyHello == <<"h", "e", "l", "l", "o">>

PathFileA == <<"/", "f", "i", "l", "e", "s", "/", "a">>

RaceRequests ==
    { BuildRequest(ReqLine(StrPOST, PathFileA), <<>>, BodyHi),
      BuildRequest(ReqLine(StrPOST, PathFileA), <<>>, BodyHello),
      BuildRequest(ReqLine(StrPOST, PathFileA), <<HConnClose>>, BodyHello),
      BuildRequest(ReqLine(StrGET, PathFileA), <<>>, <<>>) }

InitRace == InitWith({"c1", "c2"})

NextRace ==
    \/ \E c \in DOMAIN conn : Accept(c)
    \/ \E c \in DOMAIN conn, bytes \in RaceRequests : Recv(c, bytes)
    \/ \E c \in DOMAIN conn : RecvErr(c)
    \/ \E c \in DOMAIN conn : Serve(c)
    \/ \E c \in DOMAIN conn : WriteBody(c)

SpecRace == InitRace /\ [][NextRace]_vars

-----------------------------------------------------------------------------
(* parseHeaders alone, on every block of at most MaxLines lines drawn from  *)
(* HeaderLines.                                                             *)

MaxLines == 3

(* the lines:
     ""
     "a:1"
     "A :2"
     "b-c:4:5"
     "B-C"
     ":6"
     " "
     "Connection: close"
     "connection:keep-alive" *)
HeaderLines ==
  { <<>>,
    <<"a", ":", "1">>,
    <<"A", " ", ":", "2">>,
    <<"b", "-", "c", ":", "4", ":", "5">>,
    <<"B", "-", "C">>,
    <<":", "6">>,
    <<" ">>,
    <<"C", "o", "n", "n", "e", "c", "t", "i", "o", "n", ":", " ", "c", "l", "o", "s", "e">>,
    <<"c", "o", "n", "n", "e", "c", "t", "i", "o", "n", ":", "k", "e", "e", "p", "-", "a", "l", "i", "v", "e">> }

HeaderBlocks == UNION {[1..n -> HeaderLines] : n \in 0..MaxLines}

InitParse ==
    /\ dir = DirFiles
    /\ fs = InitFs
    /\ conn = [c \in {"c1"} |-> Idle]
    /\ lines \in HeaderBlocks
    /\ parsed = NotParsed

ParseHeaders ==
    /\ parsed = NotParsed
    /\ parsed' = parseHeaders(lines)
    /\ UNCHANGED <<dir, fs, conn, lines>>

SpecParse == InitParse /\ [][ParseHeaders]_vars

-----------------------------------------------------------------------------
(* What a client sees of a request and of a response, read off the bytes.   *)

CountOf(s, ch) == Cardinality({i \in DOMAIN s : s[i] = ch})

(* the positions of ch in s, in increasing order *)
RECURSIVE PositionsFrom(_, _, _)
PositionsFrom(s, ch, i) ==
    IF i > Len(s) THEN <<>>
    ELSE IF s[i] = ch THEN <<i>> \o PositionsFrom(s, ch, i + 1)
    ELSE PositionsFrom(s, ch, i + 1)

(* the bytes before the first CRLF (all of them when there is none) *)
FirstLine(bytes) ==
    IF \E i \in 1..(Len(bytes) - 1) : bytes[i] = CR /\ bytes[i + 1] = LF
    THEN Take(bytes, (CHOOSE i \in 1..(Len(bytes) - 1) :
                        /\ bytes[i] = CR /\ bytes[i + 1] = LF
                        /\ \A j \in 1..(i - 1) : ~(bytes[j] = CR /\ bytes[j + 1] = LF)) - 1)
    ELSE bytes

(* head and body of a response: before and after the first blank line *)
HasBlankLine(out) == Index(out, CRLF \o CRLF) # 0

HeadOf(out) == Take(out, Index(out, CRLF \o CRLF) - 1)

BodyOf(out) == Drop(out, Index(out, CRLF \o CRLF) + 3)

StatusLine(out) == FirstLine(out)

RespHeaders(out) == Tail(Split(HeadOf(out), CRLF))

HasRespHeader(out, line) == \E i \in DOMAIN RespHeaders(out) : RespHeaders(out)[i] = line

HasRespHeaderNamed(out, name) ==
    \E i \in DOMAIN RespHeaders(out) : HasPrefix(RespHeaders(out)[i], name \o <<":">>)

StatusLines == {TrimSuffix(r, CRLF) : r \in {Res200, Res201, Res400, Res403, Res404, Res405, Res500}}

LineConnectionClose == TrimSuffix(HdrConnectionClose, CRLF)

LineContentLength(n) == HdrContentLength \o Itoa(n)

(* the header table of a request, and whether its Connection value holds    *)
(* "close" in any letter case                                               *)
ReqHeaders(bytes) == parseHeaders(Tail(Split(bytes, CRLF))).headers

WantsClose(bytes) ==
    /\ KeyConnection \in DOMAIN ReqHeaders(bytes)
    /\ LET v == ReqHeaders(bytes)[KeyConnection]
       IN  \E i \in 1..(Len(v) - 4) :
              /\ v[i] \in {"c", "C"} /\ v[i + 1] \in {"l", "L"} /\ v[i + 2] \in {"o", "O"}
              /\ v[i + 3] \in {"s", "S"} /\ v[i + 4] \in {"e", "E"}

(* the three tokens of a request line with exactly two spaces *)
Token(line, n) ==
    LET sp == PositionsFrom(line, SP, 1)
    IN  CASE n = 1 -> Take(line, sp[1] - 1)
          [] n = 2 -> SubSeq(line, sp[1] + 1, sp[2] - 1)
          [] n = 3 -> Drop(line, sp[2])

Done(c) == conn[c].pc = "done"

Answered(c) == Done(c) /\ ~conn[c].rerr

-----------------------------------------------------------------------------
(* C6: a request line parses to (method, path, version) exactly when it     *)
(* holds exactly two spaces, that is three tokens; for every other first    *)
(* line handleRequest writes exactly "HTTP/1.1 400 Bad Request" CRLF CRLF,  *)
(* dispatches to no route handler, makes no file operation and closes the   *)
(* connection.                                                              *)
C6_MalformedRequestLine ==
    \A c \in DOMAIN conn :
        Answered(c) =>
            LET line == FirstLine(conn[c].in)
            IN  IF CountOf(line, SP) # 2
                THEN /\ parseRequestLine(line).err
                     /\ conn[c].out = Res400 \o CRLF
                     /\ conn[c].route = "none"
                     /\ conn[c].ops = {}
                     /\ conn[c].closed
                ELSE /\ parseRequestLine(line) =
                           [err |-> FALSE, method |-> Token(line, 1),
                            path |-> Token(line, 2), version |-> Token(line, 3)]
                     /\ conn[c].route # "none"
                     /\ StatusLine(conn[c].out) # TrimSuffix(Res400, CRLF)

(* a request line with more than three tokens has been answered 400 *)
C6_Witness ==
    \E c \in DOMAIN conn :
        /\ Answered(c)
        /\ CountOf(FirstLine(conn[c].in), SP) > 2
        /\ conn[c].out = Res400 \o CRLF
        /\ conn[c].closed

-----------------------------------------------------------------------------
(* exactly one response: a status line of the protocol, a blank line, and   *)
(* a body of the announced Content-Length (empty when none is announced)    *)
SingleResponse(out) ==
    /\ HasBlankLine(out)
    /\ StatusLine(out) \in StatusLines
    /\ IF HasRespHeaderNamed(out, TrimSuffix(HdrContentLength, <<":", SP>>))
       THEN HasRespHeader(out, LineContentLength(Len(BodyOf(out))))
       ELSE BodyOf(out) = <<>>

(* C8: a connection's task calls conn.Read once; when that Read returned    *)
(* bytes it writes exactly one response, with one of the seven status       *)
(* lines, and ends with the connection closed, with or without a            *)
(* Connection: close in the request; when the Read returned an error it     *)
(* writes nothing and ends with the connection closed.                      *)
C8_OneResponseThenClosed ==
    \A c \in DOMAIN conn :
        /\ conn[c].reads <= 1
        /\ ~Done(c) => conn[c].out = <<>>
        /\ Done(c) =>
              /\ conn[c].reads = 1
              /\ conn[c].closed
              /\ IF conn[c].rerr THEN conn[c].out = <<>> ELSE SingleResponse(conn[c].out)

(* a request without Connection: close was answered 200 and the connection  *)
(* is closed though the handler did not close it                            *)
C8_Witness ==
    \E c \in DOMAIN conn :
        /\ Answered(c)
        /\ ~WantsClose(conn[c].in)
        /\ StatusLine(conn[c].out) = TrimSuffix(Res200, CRLF)
        /\ ~conn[c].hclose
        /\ conn[c].closed

-----------------------------------------------------------------------------
RouteHandled(c) == Answered(c) /\ conn[c].route \in {"root", "echo", "user-agent", "files"}

CloseHonoured(c) ==
    /\ HasRespHeader(conn[c].out, LineConnectionClose) <=> WantsClose(conn[c].in)
    /\ conn[c].hclose <=> WantsClose(conn[c].in)
    /\ ~WantsClose(conn[c].in) => ~HasRespHeaderNamed(conn[c].out, KeyConnection)

(* C2 as claimed: for every route handler and every outcome, the response   *)
(* carries Connection: close and the handler closes the connection exactly  *)
(* when the request's Connection value contains "close" in any letter case. *)
C2_CloseOnEveryOutcome ==
    \A c \in DOMAIN conn : RouteHandled(c) => CloseHonoured(c)

(* C2 as amended: the same for every outcome but the files handler's 403    *)
(* Forbidden, whose response never carries a Connection header and after    *)
(* which the handler does not close the connection itself.                  *)
C2_CloseExceptForbidden ==
    \A c \in DOMAIN conn :
        RouteHandled(c) =>
            IF conn[c].route = "files" /\ StatusLine(conn[c].out) = TrimSuffix(Res403, CRLF)
            THEN /\ ~HasRespHeaderNamed(conn[c].out, KeyConnection)
                 /\ ~conn[c].hclose
            ELSE CloseHonoured(c)

(* a POST with Connection: close was answered 201 with Connection: close    *)
(* and the handler closed the connection                                    *)
C2_Witness ==
    \E c \in DOMAIN conn :
        /\ RouteHandled(c)
        /\ conn[c].route = "files"
        /\ WantsClose(conn[c].in)
        /\ StatusLine(conn[c].out) = TrimSuffix(Res201, CRLF)
        /\ HasRespHeader(conn[c].out, LineConnectionClose)
        /\ conn[c].hclose

-----------------------------------------------------------------------------
(* The /files/ route as a client states it: the requested name is the text  *)
(* after the leading "/files/", it resolves to the cleaned join of the      *)
(* base directory and the name, and a path is inside the base directory     *)
(* when it is the directory or lies below it, segment by segment.           *)

ReqMethod(c) == Token(FirstLine(conn[c].in), 1)

ReqPath(c) == Token(FirstLine(conn[c].in), 2)

NameAfterFiles(path) == Drop(path, Len(PrefixFiles))

Resolved(name, d) == Clean(Abs(d) \o SLASH \o name)

Inside(path, base) == path = base \/ base = SLASH \/ HasPrefix(path, base \o SLASH)

FilesRequest(c) == Answered(c) /\ conn[c].route = "files"

(* C1: the files handler answers 403 Forbidden and makes no file operation  *)
(* whenever the requested name resolves outside the base directory, and     *)
(* every file operation it makes is on a path inside the base directory.    *)
C1_PathSafety ==
    \A c \in DOMAIN conn :
        /\ \A op \in conn[c].ops : Inside(op[2], Abs(dir))
        /\ FilesRequest(c) /\ ~Inside(Resolved(NameAfterFiles(ReqPath(c)), dir), Abs(dir)) =>
              /\ StatusLine(conn[c].out) = TrimSuffix(Res403, CRLF)
              /\ conn[c].ops = {}

-----------------------------------------------------------------------------
GzipAsked(bytes) ==
    /\ KeyAcceptEncoding \in DOMAIN ReqHeaders(bytes)
    /\ LET encodings == Split(ReqHeaders(bytes)[KeyAcceptEncoding], CommaSpace)
       IN  \E i \in DOMAIN encodings : encodings[i] = StrGzip

(* C4: an /echo/ request without a gzip token in Accept-Encoding is         *)
(* answered 200 OK, Content-Type: text/plain, with the whole remainder of   *)
(* the path after the leading "/echo/" as body, its length as               *)
(* Content-Length, and no Content-Encoding header.                          *)
C4_EchoVerbatim ==
    \A c \in DOMAIN conn :
        Answered(c) /\ conn[c].route = "echo" /\ ~GzipAsked(conn[c].in) =>
            LET rest == Drop(ReqPath(c), Len(PrefixEcho))
            IN  /\ StatusLine(conn[c].out) = TrimSuffix(Res200, CRLF)
                /\ HasRespHeader(conn[c].out, TrimSuffix(HdrTextPlain, CRLF))
                /\ BodyOf(conn[c].out) = rest
                /\ HasRespHeader(conn[c].out, LineContentLength(Len(rest)))
                /\ ~HasRespHeaderNamed(conn[c].out, TrimSuffix(HdrGzip, <<":", SP>> \o StrGzip \o CRLF))

-----------------------------------------------------------------------------
(* C5: a /files/<name> request whose name resolves inside the base          *)
(* directory and whose method is neither GET nor POST is answered           *)
(* 405 Method Not Allowed and makes no file operation.                      *)
C5_MethodNotAllowed ==
    \A c \in DOMAIN conn :
        /\ FilesRequest(c)
        /\ ReqMethod(c) \notin {StrGET, StrPOST}
        /\ Inside(Resolved(NameAfterFiles(ReqPath(c)), dir), Abs(dir))
        => /\ StatusLine(conn[c].out) = TrimSuffix(Res405, CRLF)
           /\ conn[c].ops = {}

-----------------------------------------------------------------------------
(* the request of the scenario: POST /files/<name> HTTP/1.1, three CRLF, B *)
ScenarioPost(path, body) == ReqLine(StrPOST, path) \o CRLF \o CRLF \o CRLF \o body

ScenarioBodies == {<<>>, BodyHi}

(* C3 as claimed: the scenario's POST, for a name resolving inside the      *)
(* served directory, is answered 201 Created and leaves exactly B in the    *)
(* file, which is what the subsequent GET returns.                          *)
C3_RoundTripOfB ==
    \A c \in DOMAIN conn : \A path \in FilePaths, body \in ScenarioBodies :
        /\ Answered(c)
        /\ conn[c].in = ScenarioPost(path, body)
        /\ Inside(Resolved(NameAfterFiles(path), dir), Abs(dir))
        => /\ StatusLine(conn[c].out) = TrimSuffix(Res201, CRLF)
           /\ MapGet(fs, Resolved(NameAfterFiles(path), dir)) = body

(* C3 as amended: the scenario's POST is answered 201 Created exactly when  *)
(* the path the handler resolves passes the base-directory check, is no     *)
(* directory and lies in an existing directory; the file then holds CRLF    *)
(* followed by B (everything after the first blank line); and a GET of a    *)
(* file of the served directory is answered 200 OK with the file's content  *)
(* as body and its length as Content-Length.                                *)
C3_RoundTripOfCrlfB ==
    \A c \in DOMAIN conn :
        /\ \A path \in FilePaths, body \in ScenarioBodies :
              Answered(c) /\ conn[c].in = ScenarioPost(path, body) =>
                 LET target == cleanedFilePath(path, dir)
                 IN  /\ StatusLine(conn[c].out) = TrimSuffix(Res201, CRLF)
                           <=> /\ HasPrefix(target, Abs(dir))
                               /\ target \notin Dirs
                               /\ ParentDir(target) \in Dirs
                     /\ StatusLine(conn[c].out) = TrimSuffix(Res201, CRLF) =>
                           /\ conn[c].ops = {<<"write", target>>}
                           /\ MapGet(fs, target) = CRLF \o body
        /\ FilesRequest(c) /\ ReqMethod(c) = StrGET
              /\ conn[c].ops = {<<"read", cleanedFilePath(ReqPath(c), dir)>>}
              /\ cleanedFilePath(ReqPath(c), dir) \in DOMAIN fs
              => LET content == fs[cleanedFilePath(ReqPath(c), dir)]
                 IN  /\ StatusLine(conn[c].out) = TrimSuffix(Res200, CRLF)
                     /\ BodyOf(conn[c].out) = content
                     /\ HasRespHeader(conn[c].out, LineContentLength(Len(content)))

(* after the scenario's POST with B = "hi", a GET has returned CRLF "hi"    *)
(* with Content-Length: 4                                                   *)
C3_Witness ==
    \E c \in DOMAIN conn :
        /\ FilesRequest(c)
        /\ ReqMethod(c) = StrGET
        /\ StatusLine(conn[c].out) = TrimSuffix(Res200, CRLF)
        /\ BodyOf(conn[c].out) = CRLF \o BodyHi
        /\ HasRespHeader(conn[c].out, LineContentLength(4))

-----------------------------------------------------------------------------
(* C9: when two connections handled concurrently have each POSTed to the    *)
(* same /files/<name>, with bodies B1 and B2, both were answered            *)
(* 201 Created and the file holds exactly B1 or exactly B2.                 *)
C9_LastWriteWins ==
    \A c, d \in DOMAIN conn :
        /\ c # d
        /\ FilesRequest(c) /\ ReqMethod(c) = StrPOST
        /\ FilesRequest(d) /\ ReqMethod(d) = StrPOST
        /\ ReqPath(c) = ReqPath(d)
        => /\ StatusLine(conn[c].out) = TrimSuffix(Res201, CRLF)
           /\ StatusLine(conn[d].out) = TrimSuffix(Res201, CRLF)
           /\ MapGet(fs, Resolved(NameAfterFiles(ReqPath(c)), dir))
                 \in {BodyOf(conn[c].in), BodyOf(conn[d].in)}

-----------------------------------------------------------------------------
(* A header block as the text states it: the header lines are those before  *)
(* the first empty line; a header line with a colon names the key before    *)
(* its first colon (trimmed, in canonical form) and the value after it      *)
(* (trimmed).                                                               *)

FirstEmpty(ls) ==
    IF \E k \in DOMAIN ls : ls[k] = <<>>
    THEN CHOOSE k \in DOMAIN ls : ls[k] = <<>> /\ \A j \in 1..(k - 1) : ls[j] # <<>>
    ELSE 0

ColonLines(ls) ==
    {k \in DOMAIN ls : /\ FirstEmpty(ls) = 0 \/ k < FirstEmpty(ls)
                       /\ CountOf(ls[k], ":") > 0}

KeyOf(line) ==
    CanonicalMIMEHeaderKey(TrimSpace(Take(line, PositionsFrom(line, ":", 1)[1] - 1)))

ValueOf(line) == TrimSpace(Drop(line, PositionsFrom(line, ":", 1)[1]))

-----------------------------------------------------------------------------
(* the last header line with the key of line k *)
LastWithKey(ls, k) ==
    CHOOSE j \in ColonLines(ls) :
        /\ KeyOf(ls[j]) = KeyOf(ls[k])
        /\ \A i \in ColonLines(ls) : KeyOf(ls[i]) = KeyOf(ls[k]) => i <= j

(* C10: when several header lines before the first empty line have the      *)
(* same canonical key, the mapping holds the trimmed value of the last of   *)
(* them, and the handlers' decision on Connection rests on that last value  *)
(* alone.                                                                   *)
C10_LastWriteWins ==
    parsed # NotParsed =>
        /\ \A k \in ColonLines(lines) :
              parsed.headers[KeyOf(lines[k])] = ValueOf(lines[LastWithKey(lines, k)])
        /\ \A k \in ColonLines(lines) :
              KeyOf(lines[k]) = KeyConnection =>
                 (closeConnection(parsed.headers)
                     <=> Contains(ToLower(ValueOf(lines[LastWithKey(lines, k)])), StrClose))

(* a block was parsed in which two header lines have the same key and       *)
(* different values, and the mapping holds the later one                    *)
C10_Witness ==
    /\ parsed # NotParsed
    /\ \E j, k \in ColonLines(lines) :
          /\ j < k
          /\ KeyOf(lines[j]) = KeyOf(lines[k])
          /\ lines[j] # lines[k]
          /\ ValueOf(lines[j]) # ValueOf(lines[k])
          /\ parsed.headers[KeyOf(lines[k])] = ValueOf(lines[k])

=============================================================================
